---- MODULE Spec2Model ----
(***************************************************************************)
(* Delivery service of g10-food-ordering.                                  *)
(*                                                                         *)
(* Two service variants live in the repository:                            *)
(*   - app/services/delivery_service.py (class DeliveryService) with       *)
(*     app/services/message_handler.py (class MessageHandler);             *)
(*   - src/main.py (FastAPI handlers working on db.deliveries/db.drivers). *)
(* Each keeps its own two collections; the variables below hold them.      *)
(*                                                                         *)
(* Time is the value datetime.utcnow() returns, in minutes.  A handler     *)
(* that runs without interleaving reads one clock value; the clock moves   *)
(* between handlers (action Tick).                                         *)
(***************************************************************************)
EXTENDS Integers, Sequences, FiniteSets, TLC

\* ---------------------------------------------------------------- bounds
\* Largest number of documents in a deliveries collection.
MaxDeliveries == 2
\* Largest number of tracking_history entries in the collection.
MaxEvents == 4
\* Largest number of inbound messages consumed.
MaxMessages == 2
\* Largest number of requests src/main.py answers.
MaxRequests == 3
\* Largest clock value.
MaxClock == 2

\* Driver documents' _id values (drivers are registered before the run).
Drivers == {1, 2}
\* order_id values of the requests and events.
Orders == {1, 2}
\* _id values a request may name: the stored deliveries and unknown ones.
DeliveryIds == 1..MaxDeliveries

\* (latitude, longitude) values of the requests and of the drivers.
Coords == {<<0, 0>>, <<0, 1>>}

\* The requests that may run concurrently.
Procs == {1, 2}
\* The WebSocket objects of the live-tracking endpoint.
WebSockets == {1, 2, 3}

\* Python's None (a null driver_id, an unset timestamp, a missing document).
None == 0

\* DeliveryStatus of app/models.py.
DeliveryStatus ==
    {"pending", "assigned", "picked_up", "on_the_way", "delivered", "cancelled", "failed"}
\* The statuses from which the spec allows no further transition.
Terminal == {"delivered", "cancelled", "failed"}
\* Status values the update requests of the model carry.
StatusInputs == {"picked_up", "delivered", "cancelled", "failed"}

\* The event_type values handle_message dispatches on.
KnownEventTypes == {"order_confirmed", "payment_successful", "order_cancelled"}
\* event_type values of the inbound messages: the three the handler knows,
\* one it does not, and "None" for a message without event_type.
EventTypes == KnownEventTypes \cup {"order_shipped", "None"}

VARIABLES
    deliveries,   \* DeliveryService: deliveries collection, _id -> document
    drivers,      \* DeliveryService: drivers collection, _id -> document
    published,    \* MessageHandler: events handed to basic_publish, in order
    delivery_tag, \* MessageHandler: the number of inbound messages consumed
    tasks,        \* MessageHandler: handle_message tasks scheduled and not yet run
    acked,        \* MessageHandler: the delivery tags given to basic_ack
    nacked,       \* MessageHandler: the delivery tags given to basic_nack
    db_deliveries,\* src/main.py: db.deliveries, _id -> document
    db_drivers,   \* src/main.py: db.drivers, _id -> document
    handled,      \* src/main.py: the number of requests answered so far
    active_connections,   \* src/main.py: ConnectionManager.active_connections
    delivery_subscribers, \* src/main.py: ConnectionManager.delivery_subscribers
    websockets,   \* src/main.py: per WebSocket, its state and the texts sent on it
    pc,           \* concurrent requests: where each one stands
    local,        \* concurrent requests: each one's local variables
    statistics,   \* the last answer of get_delivery_statistics
    now           \* the clock

vars == <<deliveries, drivers, published, delivery_tag, tasks, acked, nacked,
          db_deliveries, db_drivers, handled, active_connections, delivery_subscribers,
          websockets, pc, local, statistics, now>>

\* The variables of the message handler, of src/main.py (its collections and
\* its connection manager), of the requests in progress and of the answers.
msgVars  == <<published, delivery_tag, tasks, acked, nacked>>
wsVars   == <<active_connections, delivery_subscribers, websockets>>
mainVars == <<db_deliveries, db_drivers, handled, wsVars>>
procVars == <<pc, local, statistics>>

\* ------------------------------------------------ DeliveryService (store)
\* The pair of collections DeliveryService works on.
Store == [deliveries |-> deliveries, drivers |-> drivers]

Exists(S, id) == id \in DOMAIN S.deliveries

\* ObjectId(): an _id no document and no request in progress holds yet.
ObjectId(used) == CHOOSE i \in DeliveryIds \ used : \A j \in DeliveryIds \ used : i <= j

\* insert_one.
insert_one(S, id, doc) == [S EXCEPT !.deliveries = @ @@ (id :> doc)]

\* add_tracking_event: $push of one entry; update_one matches nothing for an
\* unknown id, and any exception is swallowed.
add_tracking_event(S, id, event, t) ==
    IF Exists(S, id)
    THEN [S EXCEPT !.deliveries[id].tracking_history =
                       Append(@, [event |-> event, timestamp |-> t])]
    ELSE S

\* The location document update_delivery_location builds (lines 112-116).
location_doc(coords, t) == [latitude |-> coords[1], longitude |-> coords[2], timestamp |-> t]

\* Mutant of update_delivery_location: the new entry replaces the history.
update_delivery_location_reset(S, id, coords, t) ==
    IF Exists(S, id)
    THEN [S EXCEPT !.deliveries[id].current_location = location_doc(coords, t),
                   !.deliveries[id].updated_at = t,
                   !.deliveries[id].tracking_history =
                       << [event     |-> "location_update",
                           location  |-> location_doc(coords, t),
                           timestamp |-> t] >>]
    ELSE S

\* Mutant of update_delivery_location: updated_at is left as it was.
update_delivery_location_no_refresh(S, id, coords, t) ==
    IF Exists(S, id)
    THEN [S EXCEPT !.deliveries[id].current_location = location_doc(coords, t),
                   !.deliveries[id].tracking_history =
                       Append(@, [event     |-> "location_update",
                                  location  |-> location_doc(coords, t),
                                  timestamp |-> t])]
    ELSE S

\* update_delivery_location: one update_one with $set of current_location and
\* updated_at and $push of a "location_update" entry; nothing matches an
\* unknown id.
update_delivery_location(S, id, coords, t) ==
    IF Exists(S, id)
    THEN [S EXCEPT !.deliveries[id].current_location = location_doc(coords, t),
                   !.deliveries[id].updated_at = t,
                   !.deliveries[id].tracking_history =
                       Append(@, [event     |-> "location_update",
                                  location  |-> location_doc(coords, t),
                                  timestamp |-> t])]
    ELSE S

\* update_delivery_location's return value: modified_count > 0.
update_delivery_location_result(S, id) == Exists(S, id)

\* find_available_driver: find_one({"status": "available", "is_online": True}).
\* The store returns any one matching document; the result is the set of the
\* possible answers ({None} when nothing matches).
find_available_driver(S) ==
    LET match == {d \in Drivers : S.drivers[d].status = "available" /\ S.drivers[d].is_online}
    IN  IF match = {} THEN {None} ELSE match

\* get_delivery_by_order: find_one({"order_id": order_id}), any matching
\* document's _id ({None} when nothing matches).
get_delivery_by_order(S, order_id) ==
    LET match == {i \in DOMAIN S.deliveries : S.deliveries[i].order_id = order_id}
    IN  IF match = {} THEN {None} ELSE match

\* The driver update of create_delivery (lines 45-48).
reserve_driver(S, drv, id) ==
    [S EXCEPT !.drivers[drv].status = "busy", !.drivers[drv].current_delivery_id = id]

\* The document create_delivery starts from (lines 18-35).
pending_delivery(order_id, t) ==
    [ order_id                |-> order_id,
      status                  |-> "pending",
      driver_id               |-> None,
      estimated_delivery_time |-> None,
      actual_delivery_time    |-> None,
      actual_pickup_time      |-> None,   \* the key is absent; get() reads None
      current_location        |-> None,
      tracking_history        |-> << >>,
      created_at              |-> t,
      updated_at              |-> t ]

\* The fields create_delivery sets when a driver was found (lines 40-42).
assign_driver(delivery, drv, t) ==
    [delivery EXCEPT !.driver_id = drv,
                     !.status = "assigned",
                     !.estimated_delivery_time = t + 30]

\* The document create_delivery inserts; drv is the answer of
\* find_available_driver.
new_delivery(order_id, drv, t) ==
    IF drv # None
    THEN assign_driver(pending_delivery(order_id, t), drv, t)
    ELSE pending_delivery(order_id, t)

\* Mutant of create_delivery: the "created" tracking event is not added.
create_delivery_no_event(S, order_id, drv, t) ==
    LET id == ObjectId(DOMAIN S.deliveries)
        S1 == IF drv # None THEN reserve_driver(S, drv, id) ELSE S
    IN  insert_one(S1, id, new_delivery(order_id, drv, t))

\* create_delivery: reserve the driver found, insert, add the "created" event.
create_delivery(S, order_id, drv, t) ==
    LET id == ObjectId(DOMAIN S.deliveries)
        S1 == IF drv # None THEN reserve_driver(S, drv, id) ELSE S
        S2 == insert_one(S1, id, new_delivery(order_id, drv, t))
    IN  add_tracking_event(S2, id, "created", t)

\* The driver update of handle_status_change (lines 229-238): get_delivery,
\* and when the delivery exists and has a driver_id, that driver is set
\* available and its current_delivery_id unset.
release_driver(S, id) ==
    IF Exists(S, id) /\ S.deliveries[id].driver_id # None
    THEN [S EXCEPT !.drivers[S.deliveries[id].driver_id].status = "available",
                   !.drivers[S.deliveries[id].driver_id].current_delivery_id = None]
    ELSE S

\* The actual_delivery_time update of handle_status_change (lines 241-245).
stamp_delivered(S, id, t) ==
    IF Exists(S, id) THEN [S EXCEPT !.deliveries[id].actual_delivery_time = t] ELSE S

\* Mutant of handle_status_change: the driver is released on cancelled only.
handle_status_change_no_release(S, id, new_status, t) ==
    LET S1 == add_tracking_event(S, id, new_status, t)
        S2 == IF new_status \in {"cancelled"} THEN release_driver(S1, id) ELSE S1
    IN  IF new_status = "delivered" THEN stamp_delivered(S2, id, t) ELSE S2

\* handle_status_change: tracking event, then the side effects of the new status.
handle_status_change(S, id, new_status, t) ==
    LET S1 == add_tracking_event(S, id, new_status, t)
        S2 == IF new_status \in {"delivered", "cancelled"} THEN release_driver(S1, id) ELSE S1
    IN  IF new_status = "delivered" THEN stamp_delivered(S2, id, t) ELSE S2

\* The $set of update_delivery (lines 98-101) for update_data = {status, updated_at}.
set_status(S, id, new_status, t) ==
    IF Exists(S, id)
    THEN [S EXCEPT !.deliveries[id].status = new_status, !.deliveries[id].updated_at = t]
    ELSE S

\* update_delivery with a status: the store afterwards.  No check of the
\* current status precedes the write.
update_delivery(S, id, new_status, t) ==
    set_status(handle_status_change(S, id, new_status, t), id, new_status, t)

\* update_delivery's return value: the document when update_one modified one
\* (updated_at is always rewritten), else None.
update_delivery_result(S, id) == IF Exists(S, id) THEN "delivery" ELSE "None"

\* round(n / d * scale, 2) in hundredths, for integers n >= 0 and d > 0: the
\* nearest hundredth, a tie going to the even one.
Quotient(n, d) == (n * 100) \div d
Remainder(n, d) == (n * 100) % d

\* Mutant of round2: the digits after the second decimal are cut off.
round2_truncating(n, d) == Quotient(n, d)

round2(n, d) ==
    IF 2 * Remainder(n, d) < d THEN Quotient(n, d)
    ELSE IF 2 * Remainder(n, d) > d THEN Quotient(n, d) + 1
    ELSE IF Quotient(n, d) % 2 = 0 THEN Quotient(n, d) ELSE Quotient(n, d) + 1

RECURSIVE SumDeliveryTime(_, _)
\* The sum of actual_delivery_time - created_at over the documents ids.
SumDeliveryTime(S, ids) ==
    IF ids = {} THEN 0
    ELSE LET i == CHOOSE x \in ids : TRUE
         IN  (S.deliveries[i].actual_delivery_time - S.deliveries[i].created_at)
                 + SumDeliveryTime(S, ids \ {i})

\* get_delivery_statistics: the dictionary returned.  The two rounded values
\* are in hundredths (3333 is 33.33).
get_delivery_statistics(S) ==
    LET ids == DOMAIN S.deliveries
        total_deliveries == Cardinality(ids)
        completed == {i \in ids : S.deliveries[i].status = "delivered"}
        completed_deliveries == Cardinality(completed)
        timed == {i \in completed : S.deliveries[i].actual_delivery_time # None}
    IN  [ total_deliveries     |-> total_deliveries,
          completed_deliveries |-> completed_deliveries,
          pending_deliveries   |->
              Cardinality({i \in ids : S.deliveries[i].status \notin {"delivered", "cancelled"}}),
          active_drivers       |-> Cardinality({d \in Drivers : S.drivers[d].status = "busy"}),
          available_drivers    |->
              Cardinality({d \in Drivers : S.drivers[d].status = "available"
                                             /\ S.drivers[d].is_online}),
          average_delivery_time_minutes |->
              IF timed = {} THEN 0 ELSE round2(SumDeliveryTime(S, timed), Cardinality(timed)),
          completion_rate      |->
              IF total_deliveries > 0
              THEN round2(completed_deliveries * 100, total_deliveries)
              ELSE 0 ]

\* ------------------------------------------------------------------ state
\* get_delivery_statistics has not been asked yet.
NoAnswer == [asked |-> FALSE]

\* The local variables of a request that has not started.
NoLocal == [id |-> None, drv |-> None, delivery |-> pending_delivery(None, None)]

\* A registered driver: available and online, available but not online, or offline.
DriverDocs ==
    { [status |-> "available", is_online |-> TRUE,  current_delivery_id |-> None],
      [status |-> "available", is_online |-> FALSE, current_delivery_id |-> None],
      [status |-> "offline",   is_online |-> TRUE,  current_delivery_id |-> None] }

\* No request in progress.
NoRequest ==
    /\ pc = [p \in Procs |-> "idle"]
    /\ local = [p \in Procs |-> NoLocal]
    /\ statistics = NoAnswer

\* A WebSocket the endpoint has not been called with yet: the delivery_id of
\* its path, whether it was accepted, and the deliveries of the updates sent
\* on it.
NoWebSocket == [delivery_id |-> None, accepted |-> FALSE, sent |-> << >>]

\* ConnectionManager.__init__: no connection, no subscriber.
NoConnection ==
    /\ active_connections = << >>
    /\ delivery_subscribers = << >>     \* the empty dict
    /\ websockets = [w \in WebSockets |-> NoWebSocket]

\* src/main.py with nothing stored and no driver free.
MainUnused ==
    /\ NoConnection
    /\ handled = 0
    /\ db_deliveries = << >>
    /\ db_drivers = [d \in Drivers |-> [is_available |-> FALSE, current_location |-> <<0, 0>>]]

\* DeliveryService over an empty deliveries collection and registered drivers.
InitService ==
    /\ deliveries = << >>      \* the empty collection
    /\ drivers \in [Drivers -> DriverDocs]
    /\ published = << >>
    /\ delivery_tag = 0
    /\ tasks = << >>
    /\ acked = {}
    /\ nacked = {}
    /\ now = 1

Init == InitService /\ MainUnused /\ NoRequest

Commit(S) ==
    /\ deliveries' = S.deliveries
    /\ drivers' = S.drivers

RECURSIVE CountEvents(_, _)
\* The number of tracking_history entries of the documents ids of ds.
CountEvents(ds, ids) ==
    IF ids = {} THEN 0
    ELSE LET i == CHOOSE x \in ids : TRUE
         IN  Len(ds[i].tracking_history) + CountEvents(ds, ids \ {i})

\* Room for one more tracking entry (the bound of the model).
EventRoom == CountEvents(deliveries, DOMAIN deliveries) < MaxEvents

\* A clock tick between two handlers.
Tick ==
    /\ now < MaxClock
    /\ now' = now + 1
    /\ UNCHANGED <<deliveries, drivers, msgVars, mainVars, procVars>>

\* DeliveryService.create_delivery(delivery_data) run alone, drv being the
\* answer of find_available_driver.
CreateDeliveryOp(order_id, drv) ==
    /\ Cardinality(DOMAIN deliveries) < MaxDeliveries
    /\ EventRoom
    /\ Commit(create_delivery(Store, order_id, drv, now))

CreateDelivery ==
    \E order_id \in Orders, drv \in find_available_driver(Store) :
        /\ CreateDeliveryOp(order_id, drv)
        /\ UNCHANGED <<now, msgVars, mainVars, procVars>>

\* DeliveryService.update_delivery(delivery_id, {"status": new_status}) run alone.
UpdateDeliveryOp(id, new_status) ==
    /\ EventRoom
    /\ Commit(update_delivery(Store, id, new_status, now))

UpdateDelivery ==
    \E id \in DeliveryIds, new_status \in StatusInputs :
        /\ UpdateDeliveryOp(id, new_status)
        /\ UNCHANGED <<now, msgVars, mainVars, procVars>>

\* DeliveryService.update_delivery_location(delivery_id, latitude, longitude)
\* run alone.
UpdateDeliveryLocationOp(id, coords) ==
    /\ Exists(Store, id) => EventRoom
    /\ Commit(update_delivery_location(Store, id, coords, now))

UpdateDeliveryLocation ==
    \E id \in DeliveryIds, coords \in Coords :
        /\ UpdateDeliveryLocationOp(id, coords)
        /\ UNCHANGED <<now, msgVars, mainVars, procVars>>

\* DeliveryService.add_tracking_event(delivery_id, event, description) called
\* on its own.
AddTrackingEventOp(id, event) ==
    /\ Exists(Store, id) => EventRoom
    /\ Commit(add_tracking_event(Store, id, event, now))

AddTrackingEvent ==
    \E id \in DeliveryIds :
        /\ AddTrackingEventOp(id, "note")
        /\ UNCHANGED <<now, msgVars, mainVars, procVars>>

\* publish_event: the message handed to basic_publish (routing key
\* delivery.<event_type>), appended to what the transport has taken.
publish_event(pub, event_type, id, order_id) ==
    Append(pub, [event_type |-> event_type, delivery_id |-> id, order_id |-> order_id])

\* handle_order_confirmed: create_delivery, then publish delivery_created.
HandleOrderConfirmed(order_id) ==
    \E drv \in find_available_driver(Store) :
        /\ CreateDeliveryOp(order_id, drv)
        /\ published' = publish_event(published, "delivery_created",
                                       ObjectId(DOMAIN deliveries), order_id)

\* handle_payment_successful: the delivery of the order, when there is one,
\* is updated to status "confirmed".
HandlePaymentSuccessful(order_id) ==
    \E id \in get_delivery_by_order(Store, order_id) :
        /\ IF id # None THEN UpdateDeliveryOp(id, "confirmed")
                        ELSE UNCHANGED <<deliveries, drivers>>
        /\ UNCHANGED published

\* handle_order_cancelled: the delivery of the order, when there is one, is
\* updated to status "cancelled" and delivery_cancelled is published.
HandleOrderCancelled(order_id) ==
    \E id \in get_delivery_by_order(Store, order_id) :
        IF id # None
        THEN /\ UpdateDeliveryOp(id, "cancelled")
             /\ published' = publish_event(published, "delivery_cancelled", id, order_id)
        ELSE UNCHANGED <<deliveries, drivers, published>>

\* Mutant of handle_message: an event_type it does not know is handled as a
\* cancellation.
handle_message_default_cancel(event_type, order_id) ==
    CASE event_type = "order_confirmed"    -> HandleOrderConfirmed(order_id)
      [] event_type = "payment_successful" -> HandlePaymentSuccessful(order_id)
      [] OTHER -> HandleOrderCancelled(order_id)

\* handle_message: the dispatch on event_type; any other event_type does
\* nothing.
handle_message(event_type, order_id) ==
    CASE event_type = "order_confirmed"    -> HandleOrderConfirmed(order_id)
      [] event_type = "payment_successful" -> HandlePaymentSuccessful(order_id)
      [] event_type = "order_cancelled"    -> HandleOrderCancelled(order_id)
      [] OTHER -> UNCHANGED <<deliveries, drivers, published>>

\* message_callback and handle_message: one inbound message is consumed,
\* acknowledged and handled.
HandleMessage ==
    \E event_type \in EventTypes, order_id \in Orders :
        /\ delivery_tag < MaxMessages
        /\ delivery_tag' = delivery_tag + 1
        /\ acked' = acked \cup {delivery_tag'}
        /\ UNCHANGED <<tasks, nacked, now, mainVars, procVars>>
        /\ handle_message(event_type, order_id)

\* The DeliveryService operations, one at a time.
Next == Tick \/ CreateDelivery \/ UpdateDelivery

Spec == Init /\ [][Next]_vars

\* The second driver is off duty.
InitTrack == Init /\ drivers[2].status = "offline"

\* The DeliveryService operations with the location updates.
NextLoc == Next \/ UpdateDeliveryLocation

SpecLoc == InitTrack /\ [][NextLoc]_vars

\* The DeliveryService operations and the inbound events, one at a time.
NextMsg == Next \/ HandleMessage

SpecMsg == Init /\ [][NextMsg]_vars

\* Every operation that writes a tracking history, one at a time, at one
\* clock value.
NextTrack ==
    \/ CreateDelivery
    \/ UpdateDelivery
    \/ UpdateDeliveryLocation
    \/ AddTrackingEvent
    \/ HandleMessage

SpecTrack == InitTrack /\ [][NextTrack]_vars

\* ------------------------------------- DeliveryService, driver status
\* The status values an operator gives a driver.
OperatorStatus == {"offline", "on_break", "available"}

\* update_driver_status: $set of the status (and of updated_at, which the
\* model's driver documents do not carry).
update_driver_status(S, driver_id, status) ==
    [S EXCEPT !.drivers[driver_id].status = status]

UpdateDriverStatusOp(driver_id, status) ==
    Commit(update_driver_status(Store, driver_id, status))

UpdateDriverStatus ==
    \E driver_id \in Drivers, status \in OperatorStatus :
        /\ UpdateDriverStatusOp(driver_id, status)
        /\ UNCHANGED <<now, msgVars, mainVars, procVars>>

\* Deliveries are created and updated while an operator sets driver statuses.
NextDrv == CreateDelivery \/ UpdateDelivery \/ UpdateDriverStatus

SpecDrv == InitTrack /\ [][NextDrv]_vars

\* ------------------------------------ MessageHandler, callback and tasks
\* message_callback for a body json.loads rejects: the except branch nacks.
CallbackBadBody ==
    /\ delivery_tag < MaxMessages
    /\ delivery_tag' = delivery_tag + 1
    /\ nacked' = nacked \cup {delivery_tag'}
    /\ UNCHANGED <<tasks, acked, published>>

\* message_callback for a decoded message, asyncio.create_task succeeding:
\* the handle_message coroutine is scheduled and basic_ack follows at once.
CallbackScheduled(event_type, order_id) ==
    /\ delivery_tag < MaxMessages
    /\ delivery_tag' = delivery_tag + 1
    /\ tasks' = Append(tasks, [delivery_tag |-> delivery_tag', event_type |-> event_type,
                               order_id |-> order_id, state |-> "scheduled"])
    /\ acked' = acked \cup {delivery_tag'}
    /\ UNCHANGED <<nacked, published>>

\* message_callback for a decoded message, asyncio.create_task raising
\* RuntimeError (the calling thread runs no event loop): nothing is
\* scheduled and the except branch nacks.
CallbackNoLoop ==
    /\ delivery_tag < MaxMessages
    /\ delivery_tag' = delivery_tag + 1
    /\ nacked' = nacked \cup {delivery_tag'}
    /\ UNCHANGED <<tasks, acked, published>>

\* message_callback(ch, method, properties, body).  create_task schedules the
\* coroutine when the thread that calls the callback runs an event loop and
\* raises RuntimeError when it runs none.
MessageCallback ==
    /\ \/ CallbackBadBody
       \/ CallbackNoLoop
       \/ \E event_type \in EventTypes, order_id \in Orders :
             CallbackScheduled(event_type, order_id)
    /\ UNCHANGED <<deliveries, drivers, now, mainVars, procVars>>

\* The task of tasks[i] runs handle_message to its end.  With failed, a
\* store call of the handler raises before anything is written; the except
\* branch of handle_message prints the error and the task ends.
RunTaskOp(i, failed) ==
    /\ tasks[i].state = "scheduled"
    /\ failed => tasks[i].event_type \in KnownEventTypes
    /\ IF failed
       THEN UNCHANGED <<deliveries, drivers, published>>
       ELSE handle_message(tasks[i].event_type, tasks[i].order_id)
    /\ tasks' = [tasks EXCEPT ![i].state = IF failed THEN "failed" ELSE "done"]

RunTask ==
    \E i \in 1..Len(tasks), failed \in BOOLEAN :
        /\ RunTaskOp(i, failed)
        /\ UNCHANGED <<delivery_tag, acked, nacked, now, mainVars, procVars>>

NextAck == Tick \/ MessageCallback \/ RunTask

SpecAck == InitTrack /\ [][NextAck]_vars

\* ------------------------------- MessageHandler, outbound transport failure
\* Mutant of publish_event_outcome: the exception of basic_publish leaves
\* publish_event.
publish_event_propagates(pub, event_type, id, order_id, raises) ==
    IF raises
    THEN [published |-> pub, raised |-> "TransportFailure"]
    ELSE [published |-> publish_event(pub, event_type, id, order_id), raised |-> "None"]

\* publish_event with a transport whose basic_publish raises when raises is
\* true (lines 149-174): the except branch prints the error, nothing is
\* published and nothing is raised.  The answer: what the transport has taken
\* and the exception that leaves publish_event.
publish_event_outcome(pub, event_type, id, order_id, raises) ==
    IF raises
    THEN [published |-> pub, raised |-> "None"]
    ELSE [published |-> publish_event(pub, event_type, id, order_id), raised |-> "None"]

\* handle_order_confirmed(message) with drv the answer of
\* find_available_driver: create_delivery, then publish_event.
HandleOrderConfirmedOp(order_id, drv, raises) ==
    /\ CreateDeliveryOp(order_id, drv)
    /\ published' = publish_event_outcome(published, "delivery_created",
                                           ObjectId(DOMAIN deliveries), order_id,
                                           raises).published

\* handle_order_cancelled(message) with id the answer of
\* get_delivery_by_order: update_delivery to cancelled, then publish_event.
HandleOrderCancelledOp(order_id, id, raises) ==
    IF id # None
    THEN /\ UpdateDeliveryOp(id, "cancelled")
         /\ published' = publish_event_outcome(published, "delivery_cancelled", id,
                                                order_id, raises).published
    ELSE UNCHANGED <<deliveries, drivers, published>>

PubFrame == UNCHANGED <<delivery_tag, tasks, acked, nacked, now, mainVars, procVars>>

OrderConfirmed ==
    \E order_id \in Orders, drv \in find_available_driver(Store), raises \in BOOLEAN :
        HandleOrderConfirmedOp(order_id, drv, raises) /\ PubFrame

OrderCancelled ==
    \E order_id \in Orders, raises \in BOOLEAN :
        \E id \in get_delivery_by_order(Store, order_id) :
            HandleOrderCancelledOp(order_id, id, raises) /\ PubFrame

\* The two handlers that publish, over a transport that may fail.
NextPub == Tick \/ OrderConfirmed \/ OrderCancelled

SpecPub == InitTrack /\ [][NextPub]_vars

\* ----------------------------------- DeliveryService, failing store calls
\* One store call of an operation may raise (the connection to the store is
\* lost, a write is refused).  fail_at names that call, "none" when every
\* call succeeds.

\* The store calls update_delivery(delivery_id, {"status": new_status}) makes
\* when none of them fails: the $push of add_tracking_event, get_delivery and
\* the driver update of handle_status_change, its actual_delivery_time
\* update, the $set of update_delivery and the get_delivery of its return.
update_delivery_calls(S, id, new_status) ==
    {"track", "set"}
        \cup (IF new_status \in {"delivered", "cancelled"} THEN {"get"} ELSE {})
        \cup (IF new_status \in {"delivered", "cancelled"} /\ Exists(S, id)
                   /\ S.deliveries[id].driver_id # None
              THEN {"release"} ELSE {})
        \cup (IF new_status = "delivered" THEN {"stamp"} ELSE {})
        \cup (IF Exists(S, id) THEN {"read"} ELSE {})

\* update_delivery with the store call fail_at raising: the store afterwards
\* and the value returned.  add_tracking_event and get_delivery swallow the
\* exception of their store call (no entry is pushed; get_delivery answers
\* None, so no driver is released); an exception of another call leaves
\* handle_status_change and is turned into None by the bare except of
\* update_delivery (line 106), the calls after it not being made.
update_delivery_failing(S, id, new_status, t, fail_at) ==
    LET S1 == IF fail_at = "track" THEN S ELSE add_tracking_event(S, id, new_status, t)
        releasing == new_status \in {"delivered", "cancelled"} /\ fail_at # "get"
        S2 == IF releasing /\ fail_at # "release" THEN release_driver(S1, id) ELSE S1
        raised2 == fail_at = "release"
        S3 == IF ~raised2 /\ new_status = "delivered" /\ fail_at # "stamp"
              THEN stamp_delivered(S2, id, t) ELSE S2
        raised3 == raised2 \/ fail_at = "stamp"
        S4 == IF ~raised3 /\ fail_at # "set" THEN set_status(S3, id, new_status, t) ELSE S3
        raised4 == raised3 \/ fail_at = "set"
    IN  [store  |-> S4,
         answer |-> IF raised4 \/ fail_at = "read" \/ ~Exists(S, id)
                    THEN "None" ELSE "delivery"]

\* get_delivery(delivery_id), its find_one raising when fails: the value
\* returned (the bare except of line 67 answers None).
get_delivery_failing(S, id, fails) ==
    IF fails THEN "None" ELSE IF Exists(S, id) THEN "delivery" ELSE "None"

\* The store calls create_delivery makes when a driver drv was found.
create_delivery_calls(drv) ==
    {"find", "insert", "track"} \cup (IF drv # None THEN {"reserve"} ELSE {})

\* create_delivery with the store call fail_at raising: the store afterwards
\* and what the caller gets.  Only add_tracking_event catches; any other
\* exception leaves create_delivery at once.
create_delivery_failing(S, order_id, drv, t, fail_at) ==
    LET id == ObjectId(DOMAIN S.deliveries)
        S1 == IF drv # None THEN reserve_driver(S, drv, id) ELSE S
        S2 == insert_one(S1, id, new_delivery(order_id, drv, t))
    IN  CASE fail_at \in {"find", "reserve"} -> [store |-> S,  answer |-> "raised"]
          [] fail_at = "insert"              -> [store |-> S1, answer |-> "raised"]
          [] fail_at = "track"               -> [store |-> S2, answer |-> "delivery"]
          [] OTHER -> [store |-> add_tracking_event(S2, id, "created", t),
                       answer |-> "delivery"]

\* What a caller keeps of its last call: the operation, the store call that
\* failed and the value it got.
Called(op, fail_at, answer) == [op |-> op, fail_at |-> fail_at, answer |-> answer]

NotCalled == Called("none", "none", "None")

\* No store call has failed so far (the runs end at the first failure).
StoreUp(p) == local[p].fail_at = "none"

\* The caller of the operations below (they run one at a time).
Caller == 1

InitFail ==
    /\ InitService
    /\ drivers[2].status = "offline"
    /\ MainUnused
    /\ pc = [p \in Procs |-> "idle"]
    /\ local = [p \in Procs |-> NotCalled]
    /\ statistics = NoAnswer

FailFrame == UNCHANGED <<pc, statistics, now, msgVars, mainVars>>

\* Caller p runs update_delivery to its end.
UpdateDeliveryFailingOp(p, id, new_status, fail_at) ==
    LET r == update_delivery_failing(Store, id, new_status, now, fail_at)
    IN  /\ StoreUp(p)
        /\ EventRoom
        /\ fail_at \in update_delivery_calls(Store, id, new_status) \cup {"none"}
        /\ Commit(r.store)
        /\ local' = [local EXCEPT ![p] =
                        Called("update_delivery", fail_at, r.answer)]

UpdateDeliveryFailing ==
    \E p \in {Caller}, id \in DeliveryIds, new_status \in StatusInputs,
       fail_at \in {"none", "track", "get", "release", "stamp", "set", "read"} :
        UpdateDeliveryFailingOp(p, id, new_status, fail_at) /\ FailFrame

\* Caller p runs get_delivery.
GetDeliveryFailingOp(p, id, fails) ==
    /\ StoreUp(p)
    /\ UNCHANGED <<deliveries, drivers>>
    /\ local' = [local EXCEPT ![p] =
                    Called("get_delivery", IF fails THEN "find_one" ELSE "none",
                           get_delivery_failing(Store, id, fails))]

GetDeliveryFailing ==
    \E p \in {Caller}, id \in DeliveryIds, fails \in BOOLEAN :
        GetDeliveryFailingOp(p, id, fails) /\ FailFrame

\* Caller p runs create_delivery to its end.
CreateDeliveryFailingOp(p, order_id, drv, fail_at) ==
    LET r == create_delivery_failing(Store, order_id, drv, now, fail_at)
    IN  /\ StoreUp(p)
        /\ Cardinality(DOMAIN deliveries) < MaxDeliveries
        /\ EventRoom
        /\ fail_at \in create_delivery_calls(drv) \cup {"none"}
        /\ Commit(r.store)
        /\ local' = [local EXCEPT ![p] =
                        Called("create_delivery", fail_at, r.answer)]

CreateDeliveryFailing ==
    \E p \in {Caller}, order_id \in Orders, drv \in find_available_driver(Store),
       fail_at \in {"none", "find", "reserve", "insert", "track"} :
        CreateDeliveryFailingOp(p, order_id, drv, fail_at) /\ FailFrame

NextFail == CreateDeliveryFailing \/ UpdateDeliveryFailing \/ GetDeliveryFailing

SpecFail == InitFail /\ [][NextFail]_vars

\* ------------------------------------------- DeliveryService, statistics
\* Largest number of documents in the collection the statistics are taken of.
MaxStatDocs == 3

\* A stored delivery in status s (created at 1, delivered at t when s is
\* delivered).
StatDoc(s, t) ==
    [pending_delivery(1, 1) EXCEPT
        !.status = s,
        !.actual_delivery_time = IF s = "delivered" THEN t ELSE None,
        !.tracking_history = << [event |-> "created", timestamp |-> 1] >>]

StatDocs == {StatDoc(s, t) : s \in {"pending", "assigned", "delivered", "cancelled"},
                             t \in 1..MaxClock}

\* Any collection of up to MaxStatDocs deliveries, any registered drivers.
InitStats ==
    /\ deliveries \in UNION {[1..n -> StatDocs] : n \in 0..MaxStatDocs}
    /\ drivers \in [Drivers -> DriverDocs]
    /\ published = << >>
    /\ delivery_tag = 0
    /\ tasks = << >>
    /\ acked = {}
    /\ nacked = {}
    /\ now = 1
    /\ MainUnused
    /\ NoRequest

\* DeliveryService.get_delivery_statistics().
GetDeliveryStatistics ==
    /\ statistics' = get_delivery_statistics(Store)
    /\ UNCHANGED <<deliveries, drivers, pc, local, now, msgVars, mainVars>>

NextStats == GetDeliveryStatistics \/ Tick

SpecStats == InitStats /\ [][NextStats]_vars

\* ---------------------- DeliveryService, statistics during other requests
\* get_delivery_statistics awaits six store queries one after the other; other
\* requests run between them.

\* The values the queries of a statistics call have returned so far.
NoCounts == [total_deliveries |-> 0, completed_deliveries |-> 0, pending_deliveries |-> 0,
             active_drivers |-> 0, available_drivers |-> 0]

InitCount ==
    /\ InitService
    /\ drivers[2].status = "offline"
    /\ MainUnused
    /\ pc = [p \in Procs |-> "idle"]
    /\ local = [p \in Procs |-> NoCounts]
    /\ statistics = NoAnswer

\* One count_documents of call p: field of the answer of
\* get_delivery_statistics on the store as it is now.
CountStep(p, at, field, next) ==
    /\ pc[p] = at
    /\ pc' = [pc EXCEPT ![p] = next]
    /\ local' = [local EXCEPT ![p][field] = get_delivery_statistics(Store)[field]]
    /\ UNCHANGED <<deliveries, drivers, statistics, now, msgVars, mainVars>>

\* Lines 268-272.
CountTotal(p)     == CountStep(p, "idle", "total_deliveries", "completed")
CountCompleted(p) == CountStep(p, "completed", "completed_deliveries", "pending")
CountPending(p)   == CountStep(p, "pending", "pending_deliveries", "active")
CountActive(p)    == CountStep(p, "active", "active_drivers", "available")
CountAvailable(p) == CountStep(p, "available", "available_drivers", "aggregate")

\* Lines 275-302: the aggregate query, then the dictionary is built from the
\* counts read earlier.
CountReturn(p) ==
    /\ pc[p] = "aggregate"
    /\ pc' = [pc EXCEPT ![p] = "done"]
    /\ statistics' =
          [ total_deliveries     |-> local[p].total_deliveries,
            completed_deliveries |-> local[p].completed_deliveries,
            pending_deliveries   |-> local[p].pending_deliveries,
            active_drivers       |-> local[p].active_drivers,
            available_drivers    |-> local[p].available_drivers,
            average_delivery_time_minutes |->
                get_delivery_statistics(Store).average_delivery_time_minutes,
            completion_rate      |->
                IF local[p].total_deliveries > 0
                THEN round2(local[p].completed_deliveries * 100, local[p].total_deliveries)
                ELSE 0 ]
    /\ UNCHANGED <<deliveries, drivers, local, now, msgVars, mainVars>>

\* create_delivery and update_delivery calls of other requests, each between
\* two queries of the statistics call.
CountOther ==
    \/ \E order_id \in Orders, drv \in find_available_driver(Store) :
          CreateDeliveryOp(order_id, drv)
    \/ \E id \in DeliveryIds :
          UpdateDeliveryOp(id, "delivered")

NextCount ==
    \/ CountOther /\ UNCHANGED <<now, msgVars, mainVars, procVars>>
    \/ CountTotal(Caller)
    \/ CountCompleted(Caller)
    \/ CountPending(Caller)
    \/ CountActive(Caller)
    \/ CountAvailable(Caller)
    \/ CountReturn(Caller)

SpecCount == InitCount /\ [][NextCount]_vars

\* ------------------------------------ DeliveryService, concurrent requests
\* Each request is a coroutine; the others run at its awaits, that is between
\* its store calls.  A store call is atomic.

\* Requests of create_delivery, about to start.
InitConc ==
    /\ InitService
    /\ MainUnused
    /\ pc = [p \in Procs |-> "find"]
    /\ local = [p \in Procs |-> NoLocal]
    /\ statistics = NoAnswer

\* create_delivery, lines 18-38: the document is built and find_available_driver
\* reads the drivers collection.
CreateFind(p) ==
    \E order_id \in Orders, drv \in find_available_driver(Store) :
        /\ pc[p] = "find"
        /\ local' = [local EXCEPT ![p] =
                        [id       |-> ObjectId(DOMAIN deliveries \cup {local[q].id : q \in Procs}),
                         drv      |-> drv,
                         delivery |-> pending_delivery(order_id, now)]]
        /\ pc' = [pc EXCEPT ![p] = IF drv # None THEN "reserve" ELSE "insert"]
        /\ UNCHANGED <<deliveries, drivers, statistics, now, msgVars, mainVars>>

\* create_delivery, lines 39-48: the driver read earlier is written busy.
CreateReserve(p) ==
    /\ pc[p] = "reserve"
    /\ local' = [local EXCEPT ![p].delivery = assign_driver(@, local[p].drv, now)]
    /\ Commit(reserve_driver(Store, local[p].drv, local[p].id))
    /\ pc' = [pc EXCEPT ![p] = "insert"]
    /\ UNCHANGED <<statistics, now, msgVars, mainVars>>

\* create_delivery, line 50: insert_one.
CreateInsert(p) ==
    /\ pc[p] = "insert"
    /\ Commit(insert_one(Store, local[p].id, local[p].delivery))
    /\ pc' = [pc EXCEPT ![p] = "track"]
    /\ UNCHANGED <<local, statistics, now, msgVars, mainVars>>

\* create_delivery, line 54: add_tracking_event, then the return.
CreateTrack(p) ==
    /\ pc[p] = "track"
    /\ Commit(add_tracking_event(Store, local[p].id, "created", now))
    /\ pc' = [pc EXCEPT ![p] = "done"]
    /\ UNCHANGED <<local, statistics, now, msgVars, mainVars>>

NextConc ==
    \/ Tick
    \/ \E p \in Procs : CreateFind(p)
    \/ \E p \in Procs : CreateReserve(p)
    \/ \E p \in Procs : CreateInsert(p)
    \/ \E p \in Procs : CreateTrack(p)

SpecConc == InitConc /\ [][NextConc]_vars

\* --------------- DeliveryService, concurrent updates of one delivery
\* The local variables of an update call that has not started: the delivery
\* it names, its argument (a status or coordinates), the clock values it read
\* for updated_at and for its next store call, and the driver_id it read.
NoCall == [id |-> None, arg |-> None, updated_at |-> None, t |-> None, drv |-> None]

\* A delivery has been created (by create_delivery, at the first clock
\* value); update calls on it are about to start.
InitOrder ==
    /\ \E S0 \in [deliveries : {<< >>}, drivers : [Drivers -> DriverDocs]] :
          \E drv \in find_available_driver(S0) :
             /\ deliveries = create_delivery(S0, 1, drv, 1).deliveries
             /\ drivers = create_delivery(S0, 1, drv, 1).drivers
    /\ published = << >>
    /\ delivery_tag = 0
    /\ tasks = << >>
    /\ acked = {}
    /\ nacked = {}
    /\ now = 1
    /\ MainUnused
    /\ pc = [p \in Procs |-> "begin"]
    /\ local = [p \in Procs |-> NoCall]
    /\ statistics = NoAnswer

\* A step of call p: its locals become l, it goes to position next.
Goto(p, next, l) ==
    /\ pc' = [pc EXCEPT ![p] = next]
    /\ local' = [local EXCEPT ![p] = l]
    /\ UNCHANGED <<statistics, now, msgVars, mainVars>>

\* update_delivery_location, lines 112-132: the update document is built, the
\* clock is read for it (the write is applied later).
LocationBegin(p) ==
    \E id \in DOMAIN deliveries, coords \in Coords :
        /\ pc[p] = "begin"
        /\ Goto(p, "location", [NoCall EXCEPT !.id = id, !.arg = coords, !.t = now])
        /\ UNCHANGED <<deliveries, drivers>>

\* update_delivery_location, line 118: update_one is applied.
LocationWrite(p) ==
    /\ pc[p] = "location"
    /\ Commit(update_delivery_location(Store, local[p].id, local[p].arg, local[p].t))
    /\ Goto(p, "done", local[p])

\* update_delivery, lines 92-96, handle_status_change up to its first store
\* call and add_tracking_event, lines 250-260: updated_at is read, and the
\* tracking entry is built with the clock value of that moment.
UpdateBegin(p) ==
    \E id \in DOMAIN deliveries, new_status \in StatusInputs :
        /\ pc[p] = "begin"
        /\ Goto(p, "track", [NoCall EXCEPT !.id = id, !.arg = new_status,
                                           !.updated_at = now, !.t = now])
        /\ UNCHANGED <<deliveries, drivers>>

\* add_tracking_event, line 250: the $push is applied.
UpdateTrack(p) ==
    /\ pc[p] = "track"
    /\ Commit(add_tracking_event(Store, local[p].id, local[p].arg, local[p].t))
    /\ Goto(p, IF local[p].arg \in {"delivered", "cancelled"} THEN "get" ELSE "set",
             local[p])

\* handle_status_change, line 230: get_delivery reads the driver_id.
UpdateGet(p) ==
    /\ pc[p] = "get"
    /\ UNCHANGED <<deliveries, drivers>>
    /\ LET drv == deliveries[local[p].id].driver_id
       IN  Goto(p, IF drv # None THEN "release"
                   ELSE IF local[p].arg = "delivered" THEN "stamp" ELSE "set",
                [local[p] EXCEPT !.drv = drv, !.t = now])

\* handle_status_change, lines 232-238: the driver read is set available.
UpdateRelease(p) ==
    /\ pc[p] = "release"
    /\ drivers' = [drivers EXCEPT ![local[p].drv].status = "available",
                                  ![local[p].drv].current_delivery_id = None]
    /\ UNCHANGED deliveries
    /\ Goto(p, IF local[p].arg = "delivered" THEN "stamp" ELSE "set",
             [local[p] EXCEPT !.t = now])

\* handle_status_change, lines 241-245: actual_delivery_time is written with
\* the clock value read when the call was built.
UpdateStamp(p) ==
    /\ pc[p] = "stamp"
    /\ Commit(stamp_delivered(Store, local[p].id, local[p].t))
    /\ Goto(p, "set", local[p])

\* update_delivery, lines 98-101: the $set of status and updated_at.
UpdateSet(p) ==
    /\ pc[p] = "set"
    /\ Commit(set_status(Store, local[p].id, local[p].arg, local[p].updated_at))
    /\ Goto(p, "done", local[p])

NextOrder ==
    \/ Tick
    \/ \E p \in Procs : LocationBegin(p)
    \/ \E p \in Procs : LocationWrite(p)
    \/ \E p \in Procs : UpdateBegin(p)
    \/ \E p \in Procs : UpdateTrack(p)
    \/ \E p \in Procs : UpdateGet(p)
    \/ \E p \in Procs : UpdateRelease(p)
    \/ \E p \in Procs : UpdateStamp(p)
    \/ \E p \in Procs : UpdateSet(p)

SpecOrder == InitOrder /\ [][NextOrder]_vars

\* ------------------------- MessageHandler, the handler tasks of two messages
\* message_callback schedules one handle_message task per message and returns;
\* the tasks run on the event loop, each giving way to the other at every
\* awaited store call.  Task p handles the p-th message consumed.

\* An order_confirmed message and after it an order_cancelled message are
\* about to be consumed.
InitRace ==
    /\ InitService
    /\ MainUnused
    /\ pc = [p \in Procs |-> "idle"]
    /\ local = (1 :> NoLocal) @@ (2 :> NoCall)
    /\ statistics = NoAnswer

RaceFrame == UNCHANGED <<statistics, now, mainVars>>

\* Task p goes to position next with locals l; at "done" handle_message has
\* returned.
RaceGoto(p, next, l) ==
    /\ pc' = [pc EXCEPT ![p] = next]
    /\ local' = [local EXCEPT ![p] = l]
    /\ tasks' = [tasks EXCEPT ![p].state = IF next = "done" THEN "done" ELSE @]
    /\ UNCHANGED <<delivery_tag, acked, nacked>>

\* message_callback: the first message consumed is order_confirmed, the
\* second one order_cancelled; its task is scheduled and the message acked.
RaceConsume ==
    \E order_id \in Orders :
        /\ Len(tasks) < 2
        /\ CallbackScheduled(IF Len(tasks) = 0 THEN "order_confirmed" ELSE "order_cancelled",
                             order_id)
        /\ pc' = [pc EXCEPT ![Len(tasks) + 1] = "start"]
        /\ UNCHANGED <<deliveries, drivers, local>>
        /\ RaceFrame

\* handle_order_confirmed up to the find_one of find_available_driver
\* (create_delivery, lines 18-38).
RaceFind(p) ==
    /\ pc[p] = "start" /\ tasks[p].event_type = "order_confirmed"
    /\ \E drv \in find_available_driver(Store) :
        /\ RaceGoto(p, IF drv # None THEN "reserve" ELSE "insert",
                    [id       |-> ObjectId(DOMAIN deliveries),
                     drv      |-> drv,
                     delivery |-> pending_delivery(tasks[p].order_id, now)])
        /\ UNCHANGED <<deliveries, drivers, published>>
        /\ RaceFrame

\* create_delivery, lines 39-48.
RaceReserve(p) ==
    /\ pc[p] = "reserve"
    /\ Commit(reserve_driver(Store, local[p].drv, local[p].id))
    /\ RaceGoto(p, "insert", [local[p] EXCEPT !.delivery = assign_driver(@, local[p].drv, now)])
    /\ UNCHANGED published
    /\ RaceFrame

\* create_delivery, line 50.
RaceInsert(p) ==
    /\ pc[p] = "insert"
    /\ Commit(insert_one(Store, local[p].id, local[p].delivery))
    /\ RaceGoto(p, "created", local[p])
    /\ UNCHANGED published
    /\ RaceFrame

\* create_delivery, line 54.
RaceCreated(p) ==
    /\ pc[p] = "created"
    /\ Commit(add_tracking_event(Store, local[p].id, "created", now))
    /\ RaceGoto(p, "publish_created", local[p])
    /\ UNCHANGED published
    /\ RaceFrame

\* handle_order_confirmed, lines 115-120.
RacePublishCreated(p) ==
    /\ pc[p] = "publish_created"
    /\ published' = publish_event(published, "delivery_created", local[p].id,
                                   tasks[p].order_id)
    /\ RaceGoto(p, "done", local[p])
    /\ UNCHANGED <<deliveries, drivers>>
    /\ RaceFrame

\* handle_order_cancelled, lines 133-137: get_delivery_by_order; with no
\* delivery of the order the handler returns.
RaceLookup(p) ==
    /\ pc[p] = "start" /\ tasks[p].event_type = "order_cancelled"
    /\ \E id \in get_delivery_by_order(Store, tasks[p].order_id) :
        /\ RaceGoto(p, IF id # None THEN "push" ELSE "done",
                    [NoCall EXCEPT !.id = id, !.arg = "cancelled", !.updated_at = now])
        /\ UNCHANGED <<deliveries, drivers, published>>
        /\ RaceFrame

\* update_delivery -> handle_status_change -> add_tracking_event.
RacePush(p) ==
    /\ pc[p] = "push"
    /\ Commit(add_tracking_event(Store, local[p].id, "cancelled", now))
    /\ RaceGoto(p, "get", local[p])
    /\ UNCHANGED published
    /\ RaceFrame

\* handle_status_change, line 230.
RaceGet(p) ==
    /\ pc[p] = "get"
    /\ RaceGoto(p, IF deliveries[local[p].id].driver_id # None THEN "release" ELSE "set",
                [local[p] EXCEPT !.drv = deliveries[local[p].id].driver_id])
    /\ UNCHANGED <<deliveries, drivers, published>>
    /\ RaceFrame

\* handle_status_change, lines 232-238.
RaceRelease(p) ==
    /\ pc[p] = "release"
    /\ drivers' = [drivers EXCEPT ![local[p].drv].status = "available",
                                  ![local[p].drv].current_delivery_id = None]
    /\ RaceGoto(p, "set", local[p])
    /\ UNCHANGED <<deliveries, published>>
    /\ RaceFrame

\* update_delivery, lines 98-105.
RaceSet(p) ==
    /\ pc[p] = "set"
    /\ Commit(set_status(Store, local[p].id, "cancelled", local[p].updated_at))
    /\ RaceGoto(p, "publish_cancelled", local[p])
    /\ UNCHANGED published
    /\ RaceFrame

\* handle_order_cancelled, lines 141-145.
RacePublishCancelled(p) ==
    /\ pc[p] = "publish_cancelled"
    /\ published' = publish_event(published, "delivery_cancelled", local[p].id,
                                   tasks[p].order_id)
    /\ RaceGoto(p, "done", local[p])
    /\ UNCHANGED <<deliveries, drivers>>
    /\ RaceFrame

NextRace ==
    \/ RaceConsume
    \/ \E p \in Procs : RaceFind(p)
    \/ \E p \in Procs : RaceReserve(p)
    \/ \E p \in Procs : RaceInsert(p)
    \/ \E p \in Procs : RaceCreated(p)
    \/ \E p \in Procs : RacePublishCreated(p)
    \/ \E p \in Procs : RaceLookup(p)
    \/ \E p \in Procs : RacePush(p)
    \/ \E p \in Procs : RaceGet(p)
    \/ \E p \in Procs : RaceRelease(p)
    \/ \E p \in Procs : RaceSet(p)
    \/ \E p \in Procs : RacePublishCancelled(p)

\* The broker delivers both messages and the event loop runs every task that
\* can take a step.
SpecRace == InitRace /\ [][NextRace]_vars /\ WF_vars(NextRace)

\* ------------------------------------------------------------ src/main.py
\* ----------------------------------------- src/main.py, ConnectionManager
\* Largest number of updates sent on one WebSocket.
MaxSends == 2

\* The two attributes of the ConnectionManager.
Manager == [active_connections |-> active_connections,
            delivery_subscribers |-> delivery_subscribers]

\* x in list.
InList(list, x) == \E k \in 1..Len(list) : list[k] = x

\* list.remove(x) for an x in the list: its first occurrence is taken out.
remove(list, x) ==
    LET i == CHOOSE k \in 1..Len(list) : list[k] = x /\ \A j \in 1..(k - 1) : list[j] # x
    IN  SubSeq(list, 1, i - 1) \o SubSeq(list, i + 1, Len(list))

\* ConnectionManager.connect: the websocket is appended to active_connections
\* and, for a delivery_id, to that delivery's subscriber list (created when
\* missing).
connect(M, websocket, delivery_id) ==
    LET M1 == [M EXCEPT !.active_connections = Append(@, websocket)]
        subs == M1.delivery_subscribers
    IN  IF delivery_id = None THEN M1
        ELSE IF delivery_id \notin DOMAIN subs
             THEN [M1 EXCEPT !.delivery_subscribers = subs @@ (delivery_id :> <<websocket>>)]
             ELSE [M1 EXCEPT !.delivery_subscribers[delivery_id] = Append(@, websocket)]

\* Mutant of disconnect: the subscriber list is left alone.
disconnect_keeps_subscriber(M, websocket, delivery_id) ==
    IF InList(M.active_connections, websocket)
    THEN [M EXCEPT !.active_connections = remove(@, websocket)]
    ELSE M

\* ConnectionManager.disconnect: each remove is guarded by a membership test.
disconnect(M, websocket, delivery_id) ==
    LET M1 == IF InList(M.active_connections, websocket)
              THEN [M EXCEPT !.active_connections = remove(@, websocket)]
              ELSE M
    IN  IF /\ delivery_id # None
           /\ delivery_id \in DOMAIN M1.delivery_subscribers
           /\ InList(M1.delivery_subscribers[delivery_id], websocket)
        THEN [M1 EXCEPT !.delivery_subscribers[delivery_id] = remove(@, websocket)]
        ELSE M1

\* The subscribers of delivery_id, in list order ([] when it is no key).
subscribers(M, delivery_id) ==
    IF delivery_id \in DOMAIN M.delivery_subscribers
    THEN M.delivery_subscribers[delivery_id]
    ELSE << >>

\* The position in list of the first connection whose send_text raises
\* (Len(list) + 1 when none does).
first_failure(list, broken) ==
    CHOOSE k \in 1..(Len(list) + 1) :
        /\ k <= Len(list) => list[k] \in broken
        /\ \A j \in 1..(k - 1) : list[j] \notin broken

\* Mutant of send_delivery_update: the update goes to every active connection.
send_delivery_update_to_all(M, delivery_id, broken) ==
    LET list == M.active_connections
        k == first_failure(list, broken)
    IN  IF k > Len(list)
        THEN [manager |-> M, sent_to |-> list, raised |-> "None"]
        ELSE [manager |-> disconnect(M, list[k], delivery_id),
              sent_to |-> SubSeq(list, 1, k - 1),
              raised  |-> "TypeError"]

\* ConnectionManager.send_delivery_update: send_text on each subscriber in
\* list order.  When a send raises, the handler calls disconnect (which does
\* its removals and returns None) and awaits its result: awaiting None raises
\* TypeError inside the except block, which ends the loop and leaves the
\* method.  The answer: the manager afterwards, the connections the text went
\* to, and the exception that leaves the method.
send_delivery_update(M, delivery_id, broken) ==
    LET list == subscribers(M, delivery_id)
        k == first_failure(list, broken)
    IN  IF k > Len(list)
        THEN [manager |-> M, sent_to |-> list, raised |-> "None"]
        ELSE [manager |-> disconnect(M, list[k], delivery_id),
              sent_to |-> SubSeq(list, 1, k - 1),
              raised  |-> "TypeError"]

ManagerCommit(M) ==
    /\ active_connections' = M.active_connections
    /\ delivery_subscribers' = M.delivery_subscribers

\* manager.connect(websocket, delivery_id), called once per WebSocket by the
\* endpoint.
ConnectOp(websocket, delivery_id) ==
    /\ ~websockets[websocket].accepted
    /\ websockets' = [websockets EXCEPT ![websocket].accepted = TRUE,
                                        ![websocket].delivery_id = delivery_id]
    /\ ManagerCommit(connect(Manager, websocket, delivery_id))

\* manager.disconnect(websocket, delivery_id).
DisconnectOp(websocket, delivery_id) ==
    /\ ManagerCommit(disconnect(Manager, websocket, delivery_id))
    /\ UNCHANGED websockets

\* manager.send_delivery_update(delivery_id, message); broken are the
\* connections whose send_text raises.
SendDeliveryUpdateOp(delivery_id, broken) ==
    LET r == send_delivery_update(Manager, delivery_id, broken)
    IN  /\ \A k \in 1..Len(r.sent_to) : Len(websockets[r.sent_to[k]].sent) < MaxSends
        /\ ManagerCommit(r.manager)
        /\ websockets' = [w \in WebSockets |->
                             IF InList(r.sent_to, w)
                             THEN [websockets[w] EXCEPT !.sent = Append(@, delivery_id)]
                             ELSE websockets[w]]

WsFrame == UNCHANGED <<deliveries, drivers, db_deliveries, db_drivers, handled,
                       msgVars, procVars, now>>

Connect ==
    \E websocket \in WebSockets, delivery_id \in DeliveryIds \cup {None} :
        ConnectOp(websocket, delivery_id) /\ WsFrame

Disconnect ==
    \E websocket \in WebSockets, delivery_id \in DeliveryIds \cup {None} :
        DisconnectOp(websocket, delivery_id) /\ WsFrame

SendDeliveryUpdate ==
    \E delivery_id \in DeliveryIds, broken \in SUBSET WebSockets :
        SendDeliveryUpdateOp(delivery_id, broken) /\ WsFrame

NextWs == Connect \/ Disconnect \/ SendDeliveryUpdate

\* A fresh ConnectionManager; nothing is stored and no driver is on duty.
InitWs ==
    /\ Init
    /\ \A d \in Drivers : drivers[d].status = "offline"

SpecWs == InitWs /\ [][NextWs]_vars

\* The pair of collections the handlers of src/main.py work on.
MainStore == [deliveries |-> db_deliveries, drivers |-> db_drivers]

\* The square of the distance of lines 142-143 and 157-158.
dist2(a, b) == (a[1] - b[1]) * (a[1] - b[1]) + (a[2] - b[2]) * (a[2] - b[2])

\* The integer part of the square root of n.
isqrt(n) == CHOOSE k \in 0..n : k * k <= n /\ (k + 1) * (k + 1) > n

\* base_time of calculate_eta, in minutes.
base_time == 20

\* Mutant of calculate_eta: the distance adds nothing.
calculate_eta_flat(pickup, dropoff, t) == t + base_time

\* calculate_eta: utcnow() + base_time + int(distance * 100) minutes, the
\* distance being the square root of dist2.
calculate_eta(pickup, dropoff, t) == t + base_time + isqrt(10000 * dist2(pickup, dropoff))

\* The driver documents find_nearest_driver reads: {"is_available": True}.
available_drivers(S) == {d \in Drivers : S.drivers[d].is_available}

RECURSIVE nearest_scan(_, _, _, _)
\* The loop of find_nearest_driver (lines 134-147) over the rest of the list:
\* nearest is the nearest driver so far (None before the first), replaced
\* only by a driver strictly nearer.
nearest_scan(S, list, pickup, nearest) ==
    IF list = << >> THEN nearest
    ELSE LET driver == Head(list)
             closer == \/ nearest = None
                       \/ dist2(pickup, S.drivers[driver].current_location)
                            < dist2(pickup, S.drivers[nearest].current_location)
         IN  nearest_scan(S, Tail(list), pickup, IF closer THEN driver ELSE nearest)

\* The number of documents find_nearest_driver takes from the cursor.
to_list_length == 100

\* drivers_cursor.to_list(length): the first length documents of the cursor.
to_list(list, length) == SubSeq(list, 1, IF Len(list) < length THEN Len(list) ELSE length)

\* Mutant of find_nearest_driver: the first driver of the list, wherever it is.
find_nearest_driver_first_listed(S, list, pickup) ==
    IF list = << >> THEN None ELSE Head(list)

\* find_nearest_driver, list being the cursor's documents in store order.
find_nearest_driver(S, list, pickup) ==
    nearest_scan(S, to_list(list, to_list_length), pickup, None)

\* The orders in which the cursor may yield the available drivers.
driver_lists(S) ==
    {l \in UNION {[1..n -> Drivers] : n \in 0..Cardinality(Drivers)} :
        /\ Len(l) = Cardinality(available_drivers(S))
        /\ {l[i] : i \in 1..Len(l)} = available_drivers(S)}

\* create_delivery of src/main.py (lines 224-245): the store afterwards.
main_create_delivery(S, list, pickup, dropoff, t) ==
    LET driver_id == find_nearest_driver(S, list, pickup)
        id == ObjectId(DOMAIN S.deliveries)
        doc == [ driver_id               |-> driver_id,
                 status                  |-> IF driver_id # None THEN "assigned" ELSE "pending",
                 estimated_delivery_time |-> IF driver_id # None
                                             THEN calculate_eta(pickup, dropoff, t) ELSE None,
                 actual_pickup_time      |-> None,
                 actual_delivery_time    |-> None,
                 created_at              |-> t,
                 updated_at              |-> t ]
        S1 == IF driver_id # None
              THEN [S EXCEPT !.drivers[driver_id].is_available = FALSE]
              ELSE S
    IN  insert_one(S1, id, doc)

\* update_delivery_status of src/main.py (lines 301-323): the store afterwards.
main_update_delivery_status(S, id, status, t) ==
    LET S1 == IF status = "delivered" /\ Exists(S, id) /\ S.deliveries[id].driver_id # None
              THEN [S EXCEPT !.drivers[S.deliveries[id].driver_id].is_available = TRUE]
              ELSE S
    IN  IF Exists(S1, id)
        THEN [S1 EXCEPT !.deliveries[id].status = status,
                        !.deliveries[id].updated_at = t,
                        !.deliveries[id].actual_pickup_time =
                            IF status = "picked_up" THEN t ELSE @,
                        !.deliveries[id].actual_delivery_time =
                            IF status = "delivered" THEN t ELSE @]
        ELSE S1

\* src/main.py over an empty deliveries collection and registered drivers;
\* DeliveryService is not used.
InitMain ==
    /\ NoConnection
    /\ handled = 0
    /\ db_deliveries = << >>
    /\ db_drivers \in [Drivers -> [is_available : BOOLEAN, current_location : Coords]]
    /\ deliveries = << >>
    /\ drivers = [d \in Drivers |->
                     [status |-> "offline", is_online |-> TRUE, current_delivery_id |-> None]]
    /\ published = << >>
    /\ delivery_tag = 0
    /\ tasks = << >>
    /\ acked = {}
    /\ nacked = {}
    /\ now = 1
    /\ NoRequest

\* One more request is answered with the store left as S.
MainCommit(S) ==
    /\ handled < MaxRequests
    /\ handled' = handled + 1
    /\ db_deliveries' = S.deliveries
    /\ db_drivers' = S.drivers

\* POST /deliveries, run alone.
MainCreateOp(list, pickup, dropoff) ==
    /\ Cardinality(DOMAIN db_deliveries) < MaxDeliveries
    /\ MainCommit(main_create_delivery(MainStore, list, pickup, dropoff, now))

MainCreateDelivery ==
    \E list \in driver_lists(MainStore), pickup \in Coords, dropoff \in Coords :
        /\ MainCreateOp(list, pickup, dropoff)
        /\ UNCHANGED <<deliveries, drivers, msgVars, wsVars, procVars, now>>

\* PUT /deliveries/{delivery_id}/status, run alone.
MainUpdateOp(id, status) ==
    MainCommit(main_update_delivery_status(MainStore, id, status, now))

MainUpdateDeliveryStatus ==
    \E id \in DeliveryIds, status \in StatusInputs :
        /\ MainUpdateOp(id, status)
        /\ UNCHANGED <<deliveries, drivers, msgVars, wsVars, procVars, now>>

\* A document as the handler holds it after insert_one or find_one: the
\* stored fields and "_id".
with_id(doc, id) == [_id |-> id] @@ doc

\* serialize_delivery(delivery_doc), on the dict object itself: "id" is set
\* from "_id" and "_id" is deleted; reading "_id" of a dict that has none
\* raises KeyError.  The answer: the dict afterwards, the value returned and
\* the exception raised.
serialize_delivery(doc) ==
    IF DOMAIN doc = {}      \* "if delivery_doc:" is false for None and for {}
    THEN [doc |-> << >>, raised |-> "None"]
    ELSE IF "_id" \notin DOMAIN doc
         THEN [doc |-> doc, raised |-> "KeyError"]
         ELSE [doc |-> [k \in (DOMAIN doc \ {"_id"}) \cup {"id"} |->
                           IF k = "id" THEN doc["_id"] ELSE doc[k]],
               raised |-> "None"]

\* The end of create_delivery and of update_delivery_status once the store
\* was written (lines 250-259 and 331-344), doc being delivery_dict or
\* updated_delivery: serialize_delivery(doc) for the update message (no
\* connection is subscribed), then serialize_delivery(doc) again for the
\* return value; any exception is answered with status 500.
main_response(doc) ==
    LET first  == serialize_delivery(doc)
        second == serialize_delivery(first.doc)
    IN  IF first.raised # "None" \/ second.raised # "None"
        THEN [status_code |-> 500, delivery |-> << >>]
        ELSE [status_code |-> 200, delivery |-> second.doc]

\* The answer of POST /deliveries.
main_create_delivery_response(S, list, pickup, dropoff, t) ==
    LET id == ObjectId(DOMAIN S.deliveries)
        S1 == main_create_delivery(S, list, pickup, dropoff, t)
    IN  main_response(with_id(S1.deliveries[id], id))

\* The answer of PUT /deliveries/{delivery_id}/status.
main_update_delivery_status_response(S, id, status, t) ==
    LET S1 == main_update_delivery_status(S, id, status, t)
    IN  IF ~Exists(S, id)
        THEN [status_code |-> 404, delivery |-> << >>]
        ELSE main_response(with_id(S1.deliveries[id], id))

\* The handlers of src/main.py, one at a time.
NextMain == Tick \/ MainCreateDelivery \/ MainUpdateDeliveryStatus

SpecMain == InitMain /\ [][NextMain]_vars

\* ------------------------------------------- src/main.py, calculate_eta
\* The coordinates calculate_eta is called with.
EtaCoords == (0..1) \X (0..2)

\* calculate_eta has not been called.
NoEta == [called |-> FALSE, pickup |-> <<0, 0>>, dropoff |-> <<0, 0>>, t |-> 0, eta |-> 0]

InitEta ==
    /\ InitService
    /\ \A d \in Drivers : drivers[d].status = "offline" /\ drivers[d].is_online
    /\ MainUnused
    /\ pc = [p \in Procs |-> "idle"]
    /\ local = [p \in Procs |-> NoEta]
    /\ statistics = NoAnswer

\* Caller p calls calculate_eta(pickup_location, delivery_location) and keeps
\* the arguments, the time of the call and the value returned.
CalculateEtaOp(p, pickup, dropoff) ==
    local' = [local EXCEPT ![p] = [called  |-> TRUE,
                                   pickup  |-> pickup,
                                   dropoff |-> dropoff,
                                   t       |-> now,
                                   eta     |-> calculate_eta(pickup, dropoff, now)]]

CalculateEta ==
    \E p \in Procs, pickup \in EtaCoords, dropoff \in EtaCoords :
        /\ CalculateEtaOp(p, pickup, dropoff)
        /\ UNCHANGED <<deliveries, drivers, pc, statistics, now, msgVars, mainVars>>

NextEta == Tick \/ CalculateEta

SpecEta == InitEta /\ [][NextEta]_vars

\* ------------------------------------------------- claims: DeliveryService
\* The store after the step.
StoreNext == [deliveries |-> deliveries', drivers |-> drivers']

NonTerminal(S, id) == S.deliveries[id].status \notin Terminal

\* Active(S, drv): the deliveries in a non-terminal status whose driver_id is drv.
Active(S, drv) ==
    {id \in DOMAIN S.deliveries : S.deliveries[id].driver_id = drv /\ NonTerminal(S, id)}

\* C1 (as claimed): a status-change request on a delivery whose status is
\* delivered, cancelled or failed is rejected (update_delivery returns None)
\* and leaves the deliveries and the drivers as they were.
C1_TerminalRejects ==
    [][\A id \in DeliveryIds, new_status \in StatusInputs :
          (Exists(Store, id) /\ deliveries[id].status \in Terminal
              /\ UpdateDeliveryOp(id, new_status))
          => (update_delivery_result(Store, id) = "None"
                 /\ deliveries' = deliveries /\ drivers' = drivers)]_vars

\* C2 (as claimed): no driver is the driver_id of two deliveries that are
\* both in a non-terminal status.
C2_NoDoubleBooking ==
    \A drv \in Drivers : Cardinality(Active(Store, drv)) <= 1

\* The drivers find_available_driver could return before any request ran
\* (create_delivery only turns available drivers busy).
AvailableAtStart ==
    {d \in Drivers : drivers[d].is_online /\ drivers[d].status \in {"available", "busy"}}

\* C3 (as claimed): when two concurrent create_delivery requests have
\* finished and exactly one driver was available, exactly one of the two
\* deliveries has that driver as driver_id and the other one is pending with
\* a null driver_id.
C3_ExactlyOneReserves ==
    (\A p \in Procs : pc[p] = "done")
    => \A drv \in Drivers :
          AvailableAtStart = {drv}
          => \E p \in Procs :
                /\ deliveries[local[p].id].driver_id = drv
                /\ \A q \in Procs \ {p} :
                      /\ deliveries[local[q].id].status = "pending"
                      /\ deliveries[local[q].id].driver_id = None

\* C4 (as claimed): between operations a driver is busy exactly when some
\* delivery in a non-terminal status has it as driver_id.
C4_BusyIffReserved ==
    \A drv \in Drivers : drivers[drv].status = "busy" <=> Active(Store, drv) # {}

\* C5 (as claimed): every stored delivery's status is a DeliveryStatus value.
C5_StatusInEnum ==
    \A id \in DOMAIN deliveries : deliveries[id].status \in DeliveryStatus

\* C6: update_delivery with status delivered on a delivery assigned to a
\* driver leaves the delivery delivered with actual_delivery_time set (to the
\* time of the call), the driver available, and the tracking history longer
\* by exactly one entry, whose event is "delivered".
C6_DeliveredEffects ==
    [][\A id \in DeliveryIds :
          (Exists(Store, id) /\ deliveries[id].status = "assigned"
              /\ deliveries[id].driver_id # None /\ UpdateDeliveryOp(id, "delivered"))
          => LET old == deliveries[id]
                 new == deliveries'[id]
             IN  /\ new.status = "delivered"
                 /\ new.actual_delivery_time # None
                 /\ new.actual_delivery_time = now
                 /\ drivers'[old.driver_id].status = "available"
                 /\ Len(new.tracking_history) = Len(old.tracking_history) + 1
                 /\ SubSeq(new.tracking_history, 1, Len(old.tracking_history))
                        = old.tracking_history
                 /\ new.tracking_history[Len(new.tracking_history)].event = "delivered"]_vars

\* C6 witness: a delivery created with a driver and then delivered.
C6_Witness ==
    \E id \in DOMAIN deliveries :
        /\ deliveries[id].status = "delivered"
        /\ deliveries[id].driver_id # None
        /\ Len(deliveries[id].tracking_history) = 2
        /\ deliveries[id].tracking_history[2].event = "delivered"
        /\ deliveries[id].actual_delivery_time # None
        /\ drivers[deliveries[id].driver_id].status = "available"

\* C7 (as claimed): when a delivery that holds a driver enters cancelled or
\* failed, that driver is available afterwards and find_available_driver can
\* return it.
C7_CancelFailRelease ==
    [][\A id \in DeliveryIds, new_status \in {"cancelled", "failed"} :
          (Exists(Store, id) /\ NonTerminal(Store, id) /\ deliveries[id].driver_id # None
              /\ drivers[deliveries[id].driver_id].is_online
              /\ UpdateDeliveryOp(id, new_status))
          => /\ drivers'[deliveries[id].driver_id].status = "available"
             /\ deliveries[id].driver_id \in find_available_driver(StoreNext)]_vars

\* C8 (as claimed): when a delivery enters picked_up its actual_pickup_time
\* is the time of the transition, and no driver document changes.
C8_PickupStamp ==
    [][\A id \in DeliveryIds :
          (Exists(Store, id) /\ UpdateDeliveryOp(id, "picked_up"))
          => (deliveries'[id].actual_pickup_time = now /\ drivers' = drivers)]_vars

\* C9 (as claimed): create_delivery with exactly one available driver stores
\* an assigned delivery with that driver, marks the driver busy and sets
\* estimated_delivery_time to the creation time plus 20 minutes.
C9_AssignEta20 ==
    [][\A order_id \in Orders, drv \in Drivers :
          (find_available_driver(Store) = {drv} /\ CreateDeliveryOp(order_id, drv))
          => LET new == deliveries'[ObjectId(DOMAIN deliveries)]
             IN  /\ new.status = "assigned"
                 /\ new.driver_id = drv
                 /\ drivers'[drv].status = "busy"
                 /\ new.estimated_delivery_time = new.created_at + 20]_vars

\* C10: create_delivery stores a delivery whose tracking history is exactly
\* one entry, with event "created", whether or not a driver was found; with
\* no driver available the delivery is pending, its driver_id is null and no
\* driver document changes.
C10_CreatedEntry ==
    [][\A order_id \in Orders, drv \in find_available_driver(Store) :
          CreateDeliveryOp(order_id, drv)
          => LET id == ObjectId(DOMAIN deliveries)
             IN  /\ id \in DOMAIN deliveries'
                 /\ Len(deliveries'[id].tracking_history) = 1
                 /\ deliveries'[id].tracking_history[1].event = "created"
                 /\ (drv = None) = (deliveries'[id].status = "pending")
                 /\ drv = None => /\ deliveries'[id].driver_id = None
                                   /\ drivers' = drivers]_vars

\* C10 witness: a delivery created while no driver was available.
C10_Witness ==
    \E id \in DOMAIN deliveries :
        /\ deliveries[id].status = "pending"
        /\ deliveries[id].driver_id = None
        /\ Len(deliveries[id].tracking_history) = 1
        /\ deliveries[id].tracking_history[1].event = "created"
        /\ find_available_driver(Store) = {None}

\* --------------------------------------- the same properties in src/main.py
\* (checked under SpecMain; C1, C7, C8 and C9 name both variants)
MainStoreNext == [deliveries |-> db_deliveries', drivers |-> db_drivers']

\* update_delivery_status on a delivery in a terminal status leaves the
\* collections as they were.  Violated: the status is written unconditionally.
MainTerminalRejects ==
    [][\A id \in DeliveryIds, status \in StatusInputs :
          (Exists(MainStore, id) /\ db_deliveries[id].status \in Terminal
              /\ MainUpdateOp(id, status))
          => (db_deliveries' = db_deliveries /\ db_drivers' = db_drivers)]_vars

\* A delivery with a driver that enters cancelled or failed frees the driver.
\* Violated: only delivered sets is_available.
MainCancelFailRelease ==
    [][\A id \in DeliveryIds, status \in {"cancelled", "failed"} :
          (Exists(MainStore, id) /\ NonTerminal(MainStore, id)
              /\ db_deliveries[id].driver_id # None /\ MainUpdateOp(id, status))
          => db_drivers'[db_deliveries[id].driver_id].is_available]_vars

\* A delivery that enters picked_up gets actual_pickup_time = the time of the
\* request and no driver document changes.  Holds.
MainPickupStamp ==
    [][\A id \in DeliveryIds :
          (Exists(MainStore, id) /\ MainUpdateOp(id, "picked_up"))
          => (db_deliveries'[id].actual_pickup_time = now /\ db_drivers' = db_drivers)]_vars

\* create_delivery with exactly one available driver, at the pickup
\* coordinates, and pickup = drop-off: the delivery is assigned to that
\* driver, the driver is unavailable and the estimate is the creation time
\* plus 20 minutes.  Holds.
MainAssignEta20 ==
    [][\A list \in driver_lists(MainStore), pickup \in Coords, drv \in Drivers :
          (available_drivers(MainStore) = {drv}
              /\ db_drivers[drv].current_location = pickup
              /\ MainCreateOp(list, pickup, pickup))
          => LET new == db_deliveries'[ObjectId(DOMAIN db_deliveries)]
             IN  /\ new.status = "assigned"
                 /\ new.driver_id = drv
                 /\ ~db_drivers'[drv].is_available
                 /\ new.estimated_delivery_time = new.created_at + 20]_vars

\* ------------------------------------------- claims: tracking and location
IsPrefix(s, t) == Len(s) <= Len(t) /\ SubSeq(t, 1, Len(s)) = s

\* C11: tracking_history is append-only: over every step of create_delivery,
\* update_delivery, update_delivery_location, add_tracking_event and the
\* inbound event handlers, every stored delivery is still stored and its
\* previous tracking history is a prefix of the new one.
C11_AppendOnly ==
    [][\A id \in DOMAIN deliveries :
          /\ id \in DOMAIN deliveries'
          /\ IsPrefix(deliveries[id].tracking_history, deliveries'[id].tracking_history)]_vars

\* C11 witness: one delivery's history written by create_delivery, by
\* update_delivery_location, by add_tracking_event and by an inbound event.
C11_Witness ==
    \E id \in DOMAIN deliveries :
        LET h == deliveries[id].tracking_history
        IN  /\ Len(h) = 4
            /\ h[1].event = "created"
            /\ {h[i].event : i \in 2..4} = {"location_update", "note", "confirmed"}
            /\ delivery_tag > 0

\* C12 (as claimed): in every state reached by concurrent
\* update_delivery_location and status-change calls on a delivery, the
\* timestamps of its tracking_history are non-decreasing in list order.
C12_TimestampOrder ==
    \A id \in DOMAIN deliveries :
        LET h == deliveries[id].tracking_history
        IN  \A i \in 1..Len(h) : \A j \in i..Len(h) : h[i].timestamp <= h[j].timestamp

\* C13 (as claimed): update_delivery with status delivered or cancelled on a
\* delivery that already has that status leaves the delivery's status,
\* actual_delivery_time and tracking history and every driver document as
\* they were.
C13_TerminalIdempotent ==
    [][\A id \in DeliveryIds, new_status \in {"delivered", "cancelled"} :
          (Exists(Store, id) /\ deliveries[id].status = new_status
              /\ UpdateDeliveryOp(id, new_status))
          => /\ deliveries'[id].status = deliveries[id].status
             /\ deliveries'[id].actual_delivery_time = deliveries[id].actual_delivery_time
             /\ deliveries'[id].tracking_history = deliveries[id].tracking_history
             /\ drivers' = drivers]_vars

\* C14 (as claimed): get_delivery_statistics returns completion_rate 0 when
\* no delivery is stored and delivered / total * 100 otherwise.
C14_CompletionRateExact ==
    [][GetDeliveryStatistics
       => LET r == statistics'
          IN  IF r.total_deliveries = 0 THEN r.completion_rate = 0
              ELSE r.completion_rate * r.total_deliveries
                       = r.completed_deliveries * 100 * 100]_vars

\* C14 (amended): get_delivery_statistics returns completion_rate 0 when no
\* delivery is stored; otherwise it returns delivered / total * 100 rounded to
\* two decimals, that is a number of hundredths no further than half a
\* hundredth from delivered / total * 100, where total and delivered are the
\* numbers of stored deliveries and of those with status delivered.
C14_CompletionRateRounded ==
    [][GetDeliveryStatistics
       => LET r == statistics'
              total == Cardinality(DOMAIN deliveries)
              delivered == Cardinality({i \in DOMAIN deliveries :
                                           deliveries[i].status = "delivered"})
              diff == r.completion_rate * total - delivered * 100 * 100
          IN  /\ r.total_deliveries = total
              /\ r.completed_deliveries = delivered
              /\ IF total = 0 THEN r.completion_rate = 0
                 ELSE 2 * diff <= total /\ 2 * (0 - diff) <= total]_vars

\* C14 witness: the statistics of three deliveries, one of them delivered,
\* were asked for and the rate returned is 33.33.
C14_Witness ==
    /\ Cardinality(DOMAIN deliveries) = 3
    /\ Cardinality({i \in DOMAIN deliveries : deliveries[i].status = "delivered"}) = 1
    /\ statistics = get_delivery_statistics(Store)
    /\ statistics.completion_rate = 3333

\* The manager after the step.
ManagerNext == [active_connections |-> active_connections',
                delivery_subscribers |-> delivery_subscribers']

\* The set of the connections in a list.
Members(list) == {list[k] : k \in 1..Len(list)}

\* C15: every update sent on a WebSocket is an update of the delivery that
\* WebSocket was connected for: a connection of delivery X is never sent an
\* update broadcast for another delivery Y, whatever connect, disconnect and
\* send_delivery_update calls came before.
C15_OnlySubscribers ==
    \A w \in WebSockets :
        \A i \in 1..Len(websockets[w].sent) :
            websockets[w].sent[i] = websockets[w].delivery_id

\* C15 witness: a connection of delivery 1 and a connection of delivery 2 are
\* both subscribed, an update of delivery 2 was broadcast, and only the second
\* connection was sent it.
C15_Witness ==
    \E x \in WebSockets, y \in WebSockets :
        /\ websockets[x].delivery_id = 1 /\ websockets[y].delivery_id = 2
        /\ InList(subscribers(Manager, 1), x)
        /\ InList(subscribers(Manager, 2), y)
        /\ websockets[y].sent = <<2>>
        /\ websockets[x].sent = << >>

\* C16 (as claimed): when send_delivery_update finds several subscribers and
\* the send fails on exactly one of them, that connection is no subscriber
\* afterwards, every other subscriber was sent the update, and no exception
\* leaves send_delivery_update.
C16_IsolateFailure ==
    [][\A delivery_id \in DeliveryIds, broken \in SUBSET WebSockets :
          LET subs == Members(subscribers(Manager, delivery_id))
          IN  (Cardinality(subs) >= 2 /\ Cardinality(subs \cap broken) = 1
                  /\ SendDeliveryUpdateOp(delivery_id, broken))
              => /\ \A w \in subs \cap broken :
                       ~InList(subscribers(ManagerNext, delivery_id), w)
                 /\ \A w \in subs \ broken :
                       websockets'[w].sent = Append(websockets[w].sent, delivery_id)
                 /\ send_delivery_update(Manager, delivery_id, broken).raised = "None"]_vars

\* C17: disconnect is idempotent.  After disconnect(websocket, delivery_id)
\* the websocket is no active connection and no subscriber of delivery_id,
\* and a second disconnect with the same arguments leaves active_connections
\* and delivery_subscribers as they are; disconnect of a websocket that was
\* never connected changes nothing.
C17_DisconnectIdempotent ==
    [][\A websocket \in WebSockets, delivery_id \in DeliveryIds \cup {None} :
          DisconnectOp(websocket, delivery_id)
          => /\ disconnect(ManagerNext, websocket, delivery_id) = ManagerNext
             /\ ~InList(ManagerNext.active_connections, websocket)
             /\ ~InList(subscribers(ManagerNext, delivery_id), websocket)
             /\ ~websockets[websocket].accepted => ManagerNext = Manager]_vars

\* C17 witness: a connection of delivery 1 was disconnected while another
\* connection of delivery 1 stays subscribed.
C17_Witness ==
    \E x \in WebSockets, y \in WebSockets :
        /\ websockets[x].accepted /\ websockets[x].delivery_id = 1
        /\ ~InList(active_connections, x)
        /\ ~InList(subscribers(Manager, 1), x)
        /\ InList(active_connections, y)
        /\ InList(subscribers(Manager, 1), y)

\* C19: handle_message for an event_type that is none of order_confirmed,
\* payment_successful and order_cancelled (a missing event_type included)
\* ends without an error, publishes nothing and leaves every delivery and
\* driver document as it was.
C19_UnknownEventIgnored ==
    [][\A i \in 1..Len(tasks) :
          (tasks[i].event_type \notin KnownEventTypes /\ RunTaskOp(i, FALSE))
          => /\ tasks'[i].state = "done"
             /\ published' = published
             /\ deliveries' = deliveries
             /\ drivers' = drivers]_vars

\* C19 witness: a delivery was created for a confirmed order and published,
\* and after it a message without event_type has been handled.
C19_Witness ==
    /\ DOMAIN deliveries # {}
    /\ Len(published) = 1
    /\ Len(tasks) = 2
    /\ tasks[1].state = "done" /\ tasks[1].event_type = "order_confirmed"
    /\ tasks[2].state = "done" /\ tasks[2].event_type = "None"

\* C20 (as claimed): a message is acknowledged only after its handle_message
\* has completed successfully, and a message whose handling failed is
\* nacked and never acknowledged.
C20_AckAfterHandling ==
    \A i \in 1..Len(tasks) :
        /\ tasks[i].delivery_tag \in acked => tasks[i].state = "done"
        /\ tasks[i].state = "failed" => /\ tasks[i].delivery_tag \in nacked
                                        /\ tasks[i].delivery_tag \notin acked

\* C18: update_delivery_location on a stored delivery sets current_location
\* to the coordinates given, sets updated_at to the time of the call, appends
\* exactly one "location_update" entry carrying the coordinates, leaves the
\* delivery's other fields, the other deliveries and the drivers as they were
\* and returns True; for an unknown id it returns False and changes nothing.
C18_LocationUpdate ==
    [][\A id \in DeliveryIds, coords \in Coords :
          UpdateDeliveryLocationOp(id, coords)
          => IF Exists(Store, id)
             THEN LET old == deliveries[id]
                      new == deliveries'[id]
                      h   == new.tracking_history
                  IN  /\ update_delivery_location_result(Store, id)
                      /\ new.current_location.latitude = coords[1]
                      /\ new.current_location.longitude = coords[2]
                      /\ new.updated_at = now
                      /\ Len(h) = Len(old.tracking_history) + 1
                      /\ IsPrefix(old.tracking_history, h)
                      /\ h[Len(h)].event = "location_update"
                      /\ h[Len(h)].location.latitude = coords[1]
                      /\ h[Len(h)].location.longitude = coords[2]
                      /\ new = [old EXCEPT !.current_location = new.current_location,
                                           !.updated_at = new.updated_at,
                                           !.tracking_history = h]
                      /\ \A other \in DOMAIN deliveries \ {id} :
                            deliveries'[other] = deliveries[other]
                      /\ DOMAIN deliveries' = DOMAIN deliveries
                      /\ drivers' = drivers
             ELSE /\ ~update_delivery_location_result(Store, id)
                  /\ deliveries' = deliveries
                  /\ drivers' = drivers]_vars

\* C18 witness: an assigned delivery whose location was updated after the
\* clock moved, while another id is still unknown.
C18_Witness ==
    \E id \in DOMAIN deliveries :
        LET h == deliveries[id].tracking_history
        IN  /\ deliveries[id].status = "assigned"
            /\ h[Len(h)].event = "location_update"
            /\ deliveries[id].current_location.longitude = 1
            /\ deliveries[id].updated_at > deliveries[id].created_at
            /\ DeliveryIds \ DOMAIN deliveries # {}

\* ------------------------------------------------- claims: error handling
\* C21: a failing basic_publish does not leave publish_event, and the state
\* change of the handler is kept: after handle_order_cancelled with a failing
\* publish the delivery is cancelled and its driver (when it has one) is
\* available with no current_delivery_id; after handle_order_confirmed with a
\* failing publish the created delivery is stored (and its driver busy);
\* nothing was published in either case.
C21_PublishFailureKept ==
    [][/\ \A order_id \in Orders, id \in DOMAIN deliveries :
             (id \in get_delivery_by_order(Store, order_id)
                 /\ HandleOrderCancelledOp(order_id, id, TRUE))
             => /\ publish_event_outcome(published, "delivery_cancelled", id,
                                         order_id, TRUE).raised = "None"
                /\ published' = published
                /\ deliveries'[id].status = "cancelled"
                /\ deliveries[id].driver_id # None
                      => /\ drivers'[deliveries[id].driver_id].status = "available"
                         /\ drivers'[deliveries[id].driver_id].current_delivery_id = None
       /\ \A order_id \in Orders, drv \in find_available_driver(Store) :
             HandleOrderConfirmedOp(order_id, drv, TRUE)
             => LET id == ObjectId(DOMAIN deliveries)
                IN  /\ publish_event_outcome(published, "delivery_created", id,
                                             order_id, TRUE).raised = "None"
                    /\ published' = published
                    /\ id \in DOMAIN deliveries'
                    /\ deliveries'[id].order_id = order_id
                    /\ deliveries'[id].driver_id = drv
                    /\ drv # None => drivers'[drv].status = "busy"]_vars

\* C21 witness: a delivery was created with a driver and cancelled, both by
\* the inbound handlers, and both publishes failed.
C21_Witness ==
    /\ published = << >>
    /\ \E id \in DOMAIN deliveries :
          /\ deliveries[id].status = "cancelled"
          /\ deliveries[id].driver_id # None
          /\ drivers[deliveries[id].driver_id].status = "available"

\* C22 (as claimed): a stored delivery whose status is assigned, picked_up or
\* on_the_way has a driver_id, and a stored delivery whose status is pending
\* has none.
C22_DriverIffActive ==
    \A id \in DOMAIN deliveries :
        /\ deliveries[id].status \in {"assigned", "picked_up", "on_the_way"}
              => deliveries[id].driver_id # None
        /\ deliveries[id].status = "pending" => deliveries[id].driver_id = None

\* C24 (as claimed): the value update_delivery or get_delivery returns for a
\* call on a stored delivery during which a store call failed differs from
\* the value the same operation returns for an unknown delivery id.
C24_NotFoundDistinct ==
    [][\A id \in DOMAIN deliveries, unknown \in DeliveryIds :
          ~Exists(Store, unknown)
          => /\ \A new_status \in StatusInputs :
                   \A fail_at \in update_delivery_calls(Store, id, new_status) :
                   UpdateDeliveryFailingOp(Caller, id, new_status, fail_at)
                   => local'[Caller].answer
                         # update_delivery_failing(Store, unknown, new_status, now,
                                                   "none").answer
             /\ GetDeliveryFailingOp(Caller, id, TRUE)
                   => local'[Caller].answer # get_delivery_failing(Store, unknown, FALSE)]_vars

\* C25 (as claimed): when the $set of the new status in update_delivery
\* fails, every driver document is as before the call and the delivery's
\* tracking history has no new entry; when the insert_one of create_delivery
\* fails, every driver document is as before the call.
C25_AtomicSideEffects ==
    [][/\ \A p \in Procs, id \in DOMAIN deliveries, new_status \in StatusInputs :
             UpdateDeliveryFailingOp(p, id, new_status, "set")
             => /\ drivers' = drivers
                /\ deliveries'[id].tracking_history = deliveries[id].tracking_history
       /\ \A p \in Procs, order_id \in Orders, drv \in find_available_driver(Store) :
             CreateDeliveryFailingOp(p, order_id, drv, "insert")
             => drivers' = drivers]_vars

\* update_delivery_failing and create_delivery_failing with no failing call
\* are update_delivery and create_delivery.
FailingNoneAgrees ==
    /\ \A id \in DeliveryIds, new_status \in StatusInputs :
          update_delivery_failing(Store, id, new_status, now, "none").store
              = update_delivery(Store, id, new_status, now)
    /\ Cardinality(DOMAIN deliveries) < MaxDeliveries
          => \A order_id \in Orders, drv \in find_available_driver(Store) :
                create_delivery_failing(Store, order_id, drv, now, "none").store
                    = create_delivery(Store, order_id, drv, now)

\* The order of the two messages has a cancelled delivery whose driver, when
\* it has one, is available, and a delivery_cancelled event of the order was
\* published.
OrderCancelledDone(order_id) ==
    /\ \E id \in DOMAIN deliveries :
          /\ deliveries[id].order_id = order_id
          /\ deliveries[id].status = "cancelled"
          /\ deliveries[id].driver_id # None
                => drivers[deliveries[id].driver_id].status = "available"
    /\ \E k \in 1..Len(published) :
          /\ published[k].event_type = "delivery_cancelled"
          /\ published[k].order_id = order_id

\* C26 (as claimed): when an order_confirmed message and after it an
\* order_cancelled message of the same order were consumed, then in every
\* interleaving of their handler tasks the delivery of the order is
\* eventually cancelled, its driver eventually available and a
\* delivery_cancelled event published.
C26_CancelAfterConfirm ==
    (Len(tasks) = 2 /\ tasks[1].order_id = tasks[2].order_id)
        ~> OrderCancelledDone(tasks[1].order_id)

\* C29 (as claimed): when update_delivery moves a delivery with a driver to
\* delivered or cancelled and that driver's status was set to offline or
\* on_break by update_driver_status in the meantime, the driver keeps that
\* status.
C29_ReleaseOnlyBusy ==
    [][\A id \in DOMAIN deliveries, new_status \in {"delivered", "cancelled"} :
          LET drv == deliveries[id].driver_id
          IN  (/\ drv # None
               /\ NonTerminal(Store, id)
               /\ drivers[drv].status \in {"offline", "on_break"}
               /\ drivers[drv].current_delivery_id = id
               /\ UpdateDeliveryOp(id, new_status))
              => drivers'[drv].status = drivers[drv].status]_vars

\* C30 (as claimed): the completion_rate get_delivery_statistics returns is
\* between 0 and 100 (in hundredths: between 0 and 10000), also when
\* deliveries are created and delivered between its queries.
C30_RateInRange ==
    "completion_rate" \in DOMAIN statistics
    => /\ statistics.completion_rate >= 0
       /\ statistics.completion_rate <= 100 * 100

\* ------------------------------------------------- claims: store invariants
\* C31 (as claimed): after any sequence of inbound order_confirmed (and
\* order_cancelled) events, the same event delivered twice included, the
\* deliveries collection holds at most one delivery per order id.
C31_OneDeliveryPerOrder ==
    \A a \in DOMAIN deliveries : \A b \in DOMAIN deliveries :
        deliveries[a].order_id = deliveries[b].order_id => a = b

\* C32 (as claimed): in every state, the states between the store writes of
\* one operation included, a driver whose current_delivery_id is d refers to
\* a stored delivery d whose driver_id is that driver and whose status is
\* not terminal, and no available driver carries the field.
C32_CurrentDeliveryRef ==
    \A drv \in Drivers :
        LET d == drivers[drv].current_delivery_id
        IN  /\ d # None => /\ Exists(Store, d)
                           /\ deliveries[d].driver_id = drv
                           /\ deliveries[d].status \notin Terminal
            /\ drivers[drv].status = "available" => d = None

\* ------------------------------------------------ claims: src/main.py
\* The position of driver d in list.
IndexOf(list, d) == CHOOSE k \in 1..Len(list) : list[k] = d

C27_SuccessAfterCommit ==
    [][/\ \A list \in driver_lists(MainStore), pickup \in Coords, dropoff \in Coords :
             MainCreateOp(list, pickup, dropoff)
             => main_create_delivery_response(MainStore, list, pickup, dropoff,
                                              now).status_code = 200
       /\ \A id \in DOMAIN db_deliveries, status \in StatusInputs :
             MainUpdateOp(id, status)
             => main_update_delivery_status_response(MainStore, id, status,
                                                     now).status_code = 200]_vars

\* serialize_delivery applied once to a stored document succeeds and moves
\* "_id" to "id".
SerializeOnce ==
    \A id \in DOMAIN db_deliveries :
        LET r == serialize_delivery(with_id(db_deliveries[id], id))
        IN  /\ r.raised = "None"
            /\ r.doc.id = id
            /\ "_id" \notin DOMAIN r.doc
            /\ r.doc.status = db_deliveries[id].status

\* The minutes a call of calculate_eta added to the time of the call, and the
\* square of the distance it was called with.
EtaMinutes(p) == local[p].eta - local[p].t
EtaDist2(p) == dist2(local[p].pickup, local[p].dropoff)

====
